---- MODULE Spec2Model ----
(***************************************************************************)
(* Model of cli/smartling/project.go: the status, pull and push            *)
(* subcommands of the project command.  Paths, prefixes and locales are     *)
(* sequences of one-character strings so that filepath.Clean, Dir, Base     *)
(* and Ext can be computed the way the library computes them.               *)
(***************************************************************************)
EXTENDS Integers, Sequences, FiniteSets, Bags, TLC

\* ------------------------------------------------------------------------
\* Bounds of the model
\* ------------------------------------------------------------------------
MaxFiles == 2
MaxUnits == 4
MaxCount == 1
MaxRuns == 2

\* ------------------------------------------------------------------------
\* Strings: path/filepath as used by project.go
\* ------------------------------------------------------------------------
Slash == <<"/">>
Dot == <<".">>
DotDot == <<".", ".">>

RECURSIVE SplitAcc(_, _, _)
SplitAcc(s, acc, cur) ==
    IF s = <<>> THEN Append(acc, cur)
    ELSE IF Head(s) = "/" THEN SplitAcc(Tail(s), Append(acc, cur), <<>>)
    ELSE SplitAcc(Tail(s), acc, Append(cur, Head(s)))

Split(s) == SplitAcc(s, <<>>, <<>>)

RECURSIVE CleanSegs(_, _, _)
CleanSegs(segs, out, rooted) ==
    IF segs = <<>> THEN out
    ELSE LET e == Head(segs)
             rest == Tail(segs)
         IN  IF e = <<>> \/ e = Dot THEN CleanSegs(rest, out, rooted)
             ELSE IF e = DotDot
                  THEN IF out # <<>> /\ out[Len(out)] # DotDot
                       THEN CleanSegs(rest, SubSeq(out, 1, Len(out) - 1), rooted)
                       ELSE IF rooted THEN CleanSegs(rest, out, rooted)
                            ELSE CleanSegs(rest, Append(out, e), rooted)
                  ELSE CleanSegs(rest, Append(out, e), rooted)

RECURSIVE JoinSegs(_)
JoinSegs(segs) ==
    IF segs = <<>> THEN <<>>
    ELSE IF Len(segs) = 1 THEN segs[1]
    ELSE segs[1] \o Slash \o JoinSegs(Tail(segs))

\* filepath.Clean
Clean(p) ==
    IF p = <<>> THEN Dot
    ELSE LET rooted == p[1] = "/"
             body == JoinSegs(CleanSegs(Split(p), <<>>, rooted))
         IN  IF rooted THEN Slash \o body
             ELSE IF body = <<>> THEN Dot ELSE body

\* index of the last occurrence of character c in s, 0 when there is none
RECURSIVE LastIndex(_, _, _)
LastIndex(s, c, i) ==
    IF i = 0 THEN 0
    ELSE IF s[i] = c THEN i
    ELSE LastIndex(s, c, i - 1)

RECURSIVE StripTrailingSlashes(_)
StripTrailingSlashes(s) ==
    IF s # <<>> /\ s[Len(s)] = "/" THEN StripTrailingSlashes(SubSeq(s, 1, Len(s) - 1))
    ELSE s

\* filepath.Base
Base(p) ==
    IF p = <<>> THEN Dot
    ELSE LET s == StripTrailingSlashes(p)
             i == LastIndex(s, "/", Len(s))
         IN  IF s = <<>> THEN Slash
             ELSE SubSeq(s, i + 1, Len(s))

\* filepath.Dir
Dir(p) ==
    LET i == LastIndex(p, "/", Len(p))
    IN  Clean(SubSeq(p, 1, i))

\* filepath.Ext: the suffix of the last element starting at its last dot
Ext(p) ==
    LET s == LastIndex(p, "/", Len(p))
        d == LastIndex(p, ".", Len(p))
    IN  IF d > s THEN SubSeq(p, d, Len(p)) ELSE <<>>

\* filepath.Join of two elements: empty elements are dropped, the rest cleaned
Join(a, b) ==
    IF a = <<>> /\ b = <<>> THEN <<>>
    ELSE IF a = <<>> THEN Clean(b)
    ELSE IF b = <<>> THEN Clean(a)
    ELSE Clean(a \o Slash \o b)

\* ------------------------------------------------------------------------
\* Configuration and helpers of project.go
\* ------------------------------------------------------------------------
\* project files the configuration may list: two with a known extension and
\* one whose extension the service library does not know
FileA == <<"a", ".", "j">>
FileB == <<"d", "/", "b", ".", "j">>
FileQ == <<"c", ".", "q">>

\* the orders in which the configuration may list them
FileOrders == {<<FileB, FileQ, FileA>>, <<FileQ, FileB, FileA>>}

FileLists == {SubSeq(o, 1, n) : o \in FileOrders, n \in 1..MaxFiles}

\* locale lists the service may return
LocaleF == <<"f">>
LocaleD == <<"d">>
LocaleLists == {<<>>, <<LocaleF>>, <<LocaleF, LocaleD>>}

\* ProjectConfig.path: the project root, a relative directory
ProjectPath == <<"p">>

\* smartling.FileTypeByExtension: "" for an unknown extension
FileTypeByExtension(ext) == IF ext = <<".", "j">> THEN "json" ELSE ""

\* filetypeForProjectFile as it would be with a built-in default and no panic
filetypeOrJson(projectFilepath, cfgType) ==
    LET ft == FileTypeByExtension(Ext(projectFilepath))
    IN  IF ft # "" THEN ft ELSE IF cfgType # "" THEN cfgType ELSE "json"

\* filetypeForProjectFile: "" stands for the log.Panicln outcome
filetypeForProjectFile(projectFilepath, cfgType) ==
    LET ft == FileTypeByExtension(Ext(projectFilepath))
    IN  IF ft # "" THEN ft ELSE cfgType

\* filepath.Rel(".", targ): an error for a rooted target, else the cleaned target
RelDot(targ) == [err |-> (targ # <<>> /\ targ[1] = "/"), out |-> Clean(targ)]

localRelativeFilePath(remotepath) == RelDot(Join(ProjectPath, remotepath)).out

\* Path templates are sequences of tokens: a field reference (".Path", ".Dir",
\* ".Base", ".Ext", ".PathWithoutExt", ".Locale"), a reference to a field the
\* parts do not have (".Nope", an execution error), an unclosed action ("{{", a
\* parse error) or a literal character.
FilenameParts(p, locale) ==
    [Path |-> p, Dir |-> Dir(p), Base |-> Base(p), Ext |-> Ext(p),
     PathWithoutExt |-> <<>>, Locale |-> locale]

TemplateParses(t) == \A k \in 1..Len(t) : t[k] # "{{"

TemplateExecutes(t) == \A k \in 1..Len(t) : t[k] # ".Nope"

RECURSIVE Execute(_, _)
Execute(t, parts) ==
    IF t = <<>> THEN <<>>
    ELSE LET piece == CASE Head(t) = ".Path" -> parts.Path
                        [] Head(t) = ".Dir" -> parts.Dir
                        [] Head(t) = ".Base" -> parts.Base
                        [] Head(t) = ".Ext" -> parts.Ext
                        [] Head(t) = ".PathWithoutExt" -> parts.PathWithoutExt
                        [] Head(t) = ".Locale" -> parts.Locale
                        [] OTHER -> <<Head(t)>>
         IN  piece \o Execute(Tail(t), parts)

\* the default pull template: renders the project-relative path
defaultPullDestination == <<".Path">>

DirLocaleBase == <<".Dir", "/", ".Locale", "/", ".Base">>

\* values of ProjectConfig.FileConfig.PullFilePath; <<>> when none is configured
PullTemplates == {<<>>, DirLocaleBase, <<"{{">>, <<".Nope">>}

\* the template localPullFilePath renders
pullTemplate(custom) ==
    LET dt == defaultPullDestination
    IN  IF dt # <<>> THEN custom ELSE dt

\* localPullFilePath: err when the template fails to parse or to execute
localPullFilePath(p, locale, custom) ==
    LET dt == pullTemplate(custom)
    IN  [err |-> ~(TemplateParses(dt) /\ TemplateExecutes(dt)),
         out |-> localRelativeFilePath(Execute(dt, FilenameParts(p, locale)))]

cleanPrefix(s) ==
    LET c == Clean(Slash \o s)
    IN  IF c = Slash THEN <<>> ELSE c

\* getPrefix as it would be without the default
getPrefixFlagOnly(flag, env) == cleanPrefix(flag)

\* getPrefix: the flag, or pushPrefix() when the flag is empty, cleaned
getPrefix(flag, env) == cleanPrefix(IF flag = <<>> THEN env ELSE flag)

\* remoteFile as it would be without the separator
remoteFileNoSeparator(pfx, projectFilepath) == Clean(pfx \o projectFilepath)

\* the remote path a push unit uploads to
remoteFile(pfx, projectFilepath) == Clean(pfx \o Slash \o projectFilepath)

\* values of the --prefix flag and of pushPrefix()
FlagPrefixes == {<<>>, <<"x">>, <<".">>}
EnvPrefixes == {<<>>, <<"m">>, <<"/">>}

\* ------------------------------------------------------------------------
\* State
\* ------------------------------------------------------------------------
VARIABLES
    cmd,          \* the subcommand invoked: "status", "pull" or "push"
    Files,        \* ProjectConfig.Files
    locales,      \* the locale list client.Locales() returns
    cfgFileType,  \* ProjectConfig.FileConfig.FileType ("" when not configured)
    PullFilePath, \* ProjectConfig.FileConfig.PullFilePath
    flagPrefix,   \* c.String("prefix")
    envPrefix,    \* pushPrefix()
    proc,         \* the process: "running", "aborted" (fatal error) or "exited"
    mainPc,       \* position of the main goroutine
    fi,           \* index of the file the dispatch loop is at
    li,           \* index of the locale the dispatch loop is at (0: file not yet prepared)
    wg,           \* the sync.WaitGroup counter
    unit,         \* per goroutine: its position and its local variables
    statuses,     \* the status matrix of the status command
    tmpfiles,     \* temp artifacts uploaded and not yet cleaned up
    tmpfile,      \* the handle the last uploadAsTempFile returned to the status loop
    prefix,       \* the prefix getPrefix returned
    calls,        \* bag of the calls issued (remote, cache, local write) and of the go statements
    stdout,       \* bag of what was printed
    failed,       \* the kinds of error that occurred
    cache,        \* the translation cache: key -> payload
    disk,         \* local files: path -> content
    pulls,        \* what pull wrote: <<run, file index, locale index>> -> write
    run,          \* number of the current invocation
    remoteVer,    \* version of the translations the service holds
    invalidated   \* the invocations before which the cache was invalidated

inputs == <<cmd, Files, locales, cfgFileType, PullFilePath, flagPrefix, envPrefix>>
control == <<proc, mainPc, fi, li, wg, unit>>
pullState == <<cache, disk, pulls, run, remoteVer, invalidated>>
vars == <<inputs, control, statuses, tmpfiles, tmpfile, prefix, calls, stdout, failed, pullState>>

ZeroStatus == [aw |-> 0, ip |-> 0, co |-> 0]

\* the goroutines a run can dispatch: one per (file, locale), one per file in push
UnitIds(c, fl, ll) ==
    (1..Len(fl)) \X (IF c = "push" THEN {1} ELSE 1..Len(ll))

Units == UnitIds(cmd, Files, locales)

\* a goroutine not yet launched; tmp is the tmpfile argument of a status unit,
\* okc the calls of the unit that returned without error
NoUnit == [pc |-> "none", tmp |-> <<>>, fs |-> ZeroStatus, hit |-> FALSE, b |-> <<>>,
           okc |-> {}]

\* the handle uploadAsTempFile returns for a local file
TempHandle(localPath) == <<"tmp", localPath>>

\* what the service answers to a status query of the status command
ServiceStatus(i, j) ==
    [aw |-> (i + j) % (MaxCount + 1), ip |-> j, co |-> i]

Log(bag, item) == bag (+) SetToBag({item})

Running == proc = "running"

Init ==
    /\ cmd \in {"status", "pull", "push"}
    /\ Files \in FileLists
    /\ locales \in LocaleLists
    /\ Cardinality(UnitIds(cmd, Files, locales)) <= MaxUnits
    /\ cfgFileType \in {"", "json"}
    /\ PullFilePath \in (IF cmd = "pull" THEN PullTemplates ELSE {<<>>})
    /\ flagPrefix \in (IF cmd = "push" THEN FlagPrefixes ELSE {<<>>})
    /\ envPrefix \in (IF cmd = "push" THEN EnvPrefixes ELSE {<<>>})
    /\ proc = "running"
    /\ mainPc = "start"
    /\ fi = 1
    /\ li = 0
    /\ wg = 0
    /\ unit = [u \in UnitIds(cmd, Files, locales) |-> NoUnit]
    /\ statuses = <<>>
    /\ tmpfiles = {}
    /\ tmpfile = <<>>
    /\ prefix = <<>>
    /\ calls = EmptyBag
    /\ stdout = EmptyBag
    /\ failed = {}
    /\ cache = <<>>
    /\ disk = <<>>
    /\ pulls = <<>>
    /\ run = 1
    /\ remoteVer = 1
    /\ invalidated = {}

\* ------------------------------------------------------------------------
\* The main goroutine
\* ------------------------------------------------------------------------
\* firstLocale as it would be if an empty locale list were tolerated
firstLocaleLenient(ll) ==
    [err |-> FALSE, v |-> IF ll = <<>> THEN <<>> ELSE ll[1]]

\* locales[0].Locale of push: an index out of range panic for an empty list
firstLocale(ll) ==
    IF ll = <<>> THEN [err |-> TRUE, v |-> <<>>] ELSE [err |-> FALSE, v |-> ll[1]]

\* Action entry of the three commands: push computes its prefix, then every
\* command fetches the locale list; push takes locales[0]
Start ==
    /\ Running
    /\ mainPc = "start"
    /\ LET p == IF cmd = "push" THEN getPrefix(flagPrefix, envPrefix) ELSE <<>>
       IN  /\ prefix' = p
           /\ stdout' = IF p # <<>> THEN Log(stdout, <<"Using prefix", p>>) ELSE stdout
    /\ calls' = Log(calls, <<"Locales">>)
    /\ \E ok \in BOOLEAN :
          IF ~ok
          THEN /\ mainPc' = "dying"
               /\ failed' = failed \cup {"locales"}
          ELSE IF cmd = "push" /\ firstLocale(locales).err
          THEN /\ mainPc' = "dying"
               /\ failed' = failed \cup {"index"}
          ELSE /\ mainPc' = IF cmd = "pull" /\ locales = <<>> THEN "wait" ELSE "loop"
               /\ failed' = failed
    /\ li' = IF cmd = "status" THEN 0 ELSE 1
    /\ UNCHANGED <<inputs, proc, fi, wg, unit, statuses, tmpfiles, tmpfile, pullState>>

\* LoopAfter as it would be if the inner loop stopped one locale early
LoopAfterSkipLast(i, j, n) ==
    IF j + 1 < n THEN [pc |-> "loop", fi |-> i, li |-> j + 1]
    ELSE IF i < Len(Files) THEN [pc |-> "loop", fi |-> i + 1, li |-> IF cmd = "status" THEN 0 ELSE 1]
    ELSE [pc |-> "wait", fi |-> i + 1, li |-> 0]

\* position of the dispatch loop after the unit <<i, j>> of width n was launched
LoopAfter(i, j, n) ==
    IF j < n THEN [pc |-> "loop", fi |-> i, li |-> j + 1]
    ELSE IF i < Len(Files) THEN [pc |-> "loop", fi |-> i + 1, li |-> IF cmd = "status" THEN 0 ELSE 1]
    ELSE [pc |-> "wait", fi |-> i + 1, li |-> 0]

\* status: uploadAsTempFile of the next file, its arguments evaluated first
StatusUpload ==
    /\ Running
    /\ cmd = "status"
    /\ mainPc = "loop"
    /\ li = 0
    /\ LET f == Files[fi]
           ft == filetypeForProjectFile(f, cfgFileType)
           h == TempHandle(localRelativeFilePath(f))
       IN  IF ft = ""
           THEN /\ mainPc' = "dying"
                /\ failed' = failed \cup {"filetype"}
                /\ UNCHANGED <<fi, li, tmpfiles, tmpfile, calls>>
           ELSE /\ calls' = Log(calls, <<"UploadTemp", h>>)
                /\ \E ok \in BOOLEAN :
                      IF ok
                      THEN /\ tmpfiles' = tmpfiles \cup {h}
                           /\ tmpfile' = h
                           /\ mainPc' = LoopAfter(fi, 0, Len(locales)).pc
                           /\ fi' = LoopAfter(fi, 0, Len(locales)).fi
                           /\ li' = LoopAfter(fi, 0, Len(locales)).li
                           /\ failed' = failed
                      ELSE /\ mainPc' = "dying"
                           /\ failed' = failed \cup {"upload"}
                           /\ UNCHANGED <<fi, li, tmpfiles, tmpfile>>
    /\ UNCHANGED <<inputs, proc, wg, unit, statuses, prefix, stdout, pullState>>

\* launchGate as it would be with a ceiling on the units in flight
launchGateCeiling(n) == n < 2

\* whether the loop may launch a unit while n units have not finished: the
\* loops of lines 57-59, 111-113 and 178-180 never wait
launchGate(n) == TRUE

\* wg.Add(1) and the go statement of the unit the loop is at
Dispatch ==
    /\ Running
    /\ mainPc = "loop"
    /\ li >= 1
    /\ launchGate(wg)
    /\ LET first == CASE cmd = "status" -> "query"
                      [] cmd = "pull" -> "fetch"
                      [] OTHER -> "upload"
           nxt == LoopAfter(fi, li, IF cmd = "push" THEN 1 ELSE Len(locales))
       IN  /\ wg' = wg + 1
           /\ unit' = [unit EXCEPT ![<<fi, li>>].pc = first,
                                    ![<<fi, li>>].tmp = tmpfile]
           /\ calls' = Log(calls, <<"go", fi, li>>)
           /\ mainPc' = nxt.pc
           /\ fi' = nxt.fi
           /\ li' = nxt.li
    /\ UNCHANGED <<inputs, proc, statuses, tmpfiles, tmpfile, prefix, stdout, failed,
                   pullState>>

\* WaitDone as it would be if the main goroutine did not wait
WaitDoneAtOnce(n) == TRUE

\* wg.Wait() returns once the counter is zero
WaitDone(n) == n = 0

Wait ==
    /\ Running
    /\ mainPc = "wait"
    /\ WaitDone(wg)
    /\ mainPc' = IF cmd = "status" THEN "header" ELSE "return"
    /\ UNCHANGED <<inputs, proc, fi, li, wg, unit, statuses, tmpfiles, tmpfile, prefix, calls,
                   stdout, failed, pullState>>

\* status: the three lines printed straight to standard output
StatusHeader ==
    /\ Running
    /\ mainPc = "header"
    /\ stdout' = Log(stdout, <<"Translation counts">>)
    /\ mainPc' = "table"
    /\ UNCHANGED <<inputs, proc, fi, li, wg, unit, statuses, tmpfiles, tmpfile, prefix, calls,
                   failed, pullState>>

\* statuses[projectFilepath][locale]: the zero FileStatus for a missing entry
Cell(m, f, l) ==
    IF f \in DOMAIN m /\ l \in DOMAIN m[f] THEN m[f][l] ELSE ZeroStatus

\* the table the tabwriter holds when it is flushed
Table(m) ==
    [cols |-> locales,
     rows |-> [i \in 1..Len(Files) |->
                  [name |-> Files[i],
                   cells |-> [j \in 1..Len(locales) |->
                                 LET st == Cell(m, Files[i], locales[j])
                                 IN  <<st.aw, st.ip, st.co>>]]]]

\* status: the column row and one row per file, flushed at the end
StatusTable ==
    /\ Running
    /\ mainPc = "table"
    /\ stdout' = Log(stdout, <<"table", Table(statuses)>>)
    /\ mainPc' = "return"
    /\ UNCHANGED <<inputs, proc, fi, li, wg, unit, statuses, tmpfiles, tmpfile, prefix, calls,
                   failed, pullState>>

\* cleanupDue as it would be if the hook ran while the Action still waits
cleanupDueEarly(pc) == pc \in {"wait", "return"}

\* the After hook runs once the subcommand's Action has returned
cleanupDue(pc) == pc = "return"

\* ProjectCommand.After: cleanupTempFiles once the subcommand's Action returned
After ==
    /\ Running
    /\ cleanupDue(mainPc)
    /\ tmpfiles' = {}
    /\ mainPc' = "cleaned"
    /\ UNCHANGED <<inputs, proc, fi, li, wg, unit, statuses, tmpfile, prefix, calls, stdout,
                   failed, pullState>>

\* main returns: the process ends, whatever the other goroutines are doing
Exit ==
    /\ Running
    /\ mainPc = "cleaned"
    /\ proc' = "exited"
    /\ UNCHANGED <<inputs, mainPc, fi, li, wg, unit, statuses, tmpfiles, tmpfile, prefix, calls,
                   stdout, failed, pullState>>

\* an unrecovered panic ends the process after the panicking goroutine has run
\* its deferred calls
ProcessExit ==
    /\ Running
    /\ \/ mainPc = "dying"
       \/ \E u \in Units : unit[u].pc = "dying"
    /\ proc' = "aborted"
    /\ UNCHANGED <<inputs, mainPc, fi, li, wg, unit, statuses, tmpfiles, tmpfile, prefix, calls,
                   stdout, failed, pullState>>

\* ------------------------------------------------------------------------
\* The goroutines of status
\* ------------------------------------------------------------------------
\* queryHandle as it would be if the goroutine read the loop's variable
queryHandleShared(arg, loopvar) == loopvar

\* the handle a status unit queries: its tmpfile argument (lines 59 and 71)
queryHandle(arg, loopvar) == arg

\* client.Status of the unit's temp handle and locale, then the lookup of the
\* file's inner map; a failed query panics and the deferred wg.Done() runs
StatusQuery(u) ==
    /\ Running
    /\ cmd = "status"
    /\ unit[u].pc = "query"
    /\ LET f == Files[u[1]]
           h == queryHandle(unit[u].tmp, tmpfile)
       IN  /\ calls' = Log(calls, <<"Status", h, locales[u[2]]>>)
           /\ \E ok \in BOOLEAN :
                 IF ok
                 THEN /\ unit' = [unit EXCEPT ![u].pc = IF f \in DOMAIN statuses
                                                        THEN "write" ELSE "create",
                                              ![u].fs = ServiceStatus(u[1], u[2])]
                      /\ UNCHANGED <<wg, failed>>
                 ELSE /\ unit' = [unit EXCEPT ![u].pc = "dying"]
                      /\ wg' = wg - 1
                      /\ failed' = failed \cup {"status"}
    /\ UNCHANGED <<inputs, proc, mainPc, fi, li, statuses, tmpfiles, tmpfile, prefix, stdout,
                   pullState>>

\* statuses[projectFilepath] = mm, for the unit that found no inner map
StatusCreate(u) ==
    /\ Running
    /\ unit[u].pc = "create"
    /\ statuses' = (Files[u[1]] :> <<>>) @@ statuses
    /\ unit' = [unit EXCEPT ![u].pc = "write"]
    /\ UNCHANGED <<inputs, proc, mainPc, fi, li, wg, tmpfiles, tmpfile, prefix, calls, stdout,
                   failed, pullState>>

\* statuses[projectFilepath][locale] = fs, then the deferred wg.Done()
StatusWrite(u) ==
    /\ Running
    /\ unit[u].pc = "write"
    /\ cmd = "status"
    /\ LET f == Files[u[1]]
       IN  statuses' = (f :> ((locales[u[2]] :> unit[u].fs) @@ statuses[f])) @@ statuses
    /\ unit' = [unit EXCEPT ![u].pc = "done"]
    /\ wg' = wg - 1
    /\ UNCHANGED <<inputs, proc, mainPc, fi, li, tmpfiles, tmpfile, prefix, calls, stdout,
                   failed, pullState>>

\* two goroutines inside their unsynchronised access to the statuses map: the
\* runtime may detect the concurrent map write and end the process
MapFault ==
    /\ Running
    /\ \E u, v \in Units :
          /\ u # v
          /\ unit[u].pc \in {"create", "write"}
          /\ unit[v].pc \in {"create", "write"}
    /\ cmd = "status"
    /\ proc' = "aborted"
    /\ failed' = failed \cup {"mapfault"}
    /\ UNCHANGED <<inputs, mainPc, fi, li, wg, unit, statuses, tmpfiles, tmpfile, prefix, calls,
                   stdout, pullState>>

StatusUnit(u) == StatusQuery(u) \/ StatusCreate(u) \/ StatusWrite(u)

\* ------------------------------------------------------------------------
\* The goroutines of pull
\* ------------------------------------------------------------------------
\* the translation cache: a stored payload is a hit; a miss retrieves the
\* translation the service holds and stores it under the key
translateViaCache(c, key, ver) ==
    IF key \in DOMAIN c
    THEN [hit |-> TRUE, b |-> c[key], cache |-> c]
    ELSE [hit |-> FALSE, b |-> <<key, ver>>, cache |-> (key :> <<key, ver>>) @@ c]

\* cachedLabel as it would be if the note were never set
cachedLabelNever(hit) == ""

\* the note printed after the destination path
cachedLabel(hit) == IF hit THEN "(using cache)" ELSE ""

\* translateViaCache with its arguments evaluated first
PullFetch(u) ==
    /\ Running
    /\ unit[u].pc = "fetch"
    /\ LET f == Files[u[1]]
           ft == filetypeForProjectFile(f, cfgFileType)
           key == <<locales[u[2]], localRelativeFilePath(f), ft>>
           r == translateViaCache(cache, key, remoteVer)
       IN  IF ft = ""
           THEN /\ unit' = [unit EXCEPT ![u].pc = "dying"]
                /\ wg' = wg - 1
                /\ failed' = failed \cup {"filetype"}
                /\ UNCHANGED <<calls, cache>>
           ELSE /\ calls' = Log(calls, <<"Cache", key>>)
                /\ \E ok \in BOOLEAN :
                      IF ok
                      THEN /\ unit' = [unit EXCEPT ![u].pc = "write",
                                                   ![u].hit = r.hit,
                                                   ![u].b = r.b]
                           /\ cache' = r.cache
                           /\ UNCHANGED <<wg, failed>>
                      ELSE /\ unit' = [unit EXCEPT ![u].pc = "dying"]
                           /\ wg' = wg - 1
                           /\ failed' = failed \cup {"fetch"}
                           /\ cache' = cache
    /\ UNCHANGED <<inputs, proc, mainPc, fi, li, statuses, tmpfiles, tmpfile, prefix, stdout,
                   disk, pulls, run, remoteVer, invalidated>>

\* the outcomes of ioutil.WriteFile(fp, b, 0644): -1 when the file cannot be
\* opened, 0 when the write fails and leaves the truncated file, Len(b) when it
\* succeeds; the project root, a directory, cannot be opened
WriteOutcomes(fp, b) == IF fp = ProjectPath THEN {-1} ELSE {-1, 0, Len(b)}

\* WriteFile as it would be if a failed write removed the files written so far
WriteFileRollback(d, fp, b, n) ==
    IF n = Len(b) THEN (fp :> b) @@ d ELSE <<>>

\* the local files after ioutil.WriteFile(fp, b, 0644) with outcome n
WriteFile(d, fp, b, n) ==
    IF n < 0 THEN d ELSE (fp :> SubSeq(b, 1, n)) @@ d

\* localPullFilePath, the printed line and ioutil.WriteFile
PullWrite(u) ==
    /\ Running
    /\ unit[u].pc = "write"
    /\ cmd = "pull"
    /\ LET r == localPullFilePath(Files[u[1]], locales[u[2]], PullFilePath)
           label == cachedLabel(unit[u].hit)
       IN  IF r.err
           THEN /\ unit' = [unit EXCEPT ![u].pc = "dying"]
                /\ failed' = failed \cup {"template"}
                /\ UNCHANGED <<stdout, calls, disk, pulls>>
           ELSE /\ stdout' = Log(stdout, <<r.out, label>>)
                /\ calls' = Log(calls, <<"WriteFile", r.out, unit[u].b>>)
                /\ \E n \in WriteOutcomes(r.out, unit[u].b) :
                      /\ disk' = WriteFile(disk, r.out, unit[u].b, n)
                      /\ IF n = Len(unit[u].b)
                         THEN /\ pulls' = (<<run, u[1], u[2]>> :>
                                              [fp |-> r.out, b |-> unit[u].b, cached |-> label])
                                          @@ pulls
                              /\ unit' = [unit EXCEPT ![u].pc = "done"]
                              /\ failed' = failed
                         ELSE /\ unit' = [unit EXCEPT ![u].pc = "dying"]
                              /\ failed' = failed \cup {"write"}
                              /\ pulls' = pulls
    /\ wg' = wg - 1
    /\ UNCHANGED <<inputs, proc, mainPc, fi, li, statuses, tmpfiles, tmpfile, prefix,
                   cache, run, remoteVer, invalidated>>

PullUnit(u) == PullFetch(u) \/ PullWrite(u)

\* pull is invoked again: the cache and the local files persist, the service
\* may hold newer translations and the cache may have been invalidated
NextRun ==
    /\ cmd = "pull"
    /\ proc = "exited"
    /\ failed = {}
    /\ run < MaxRuns
    /\ run' = run + 1
    /\ \E v \in {remoteVer, remoteVer + 1} : remoteVer' = v
    /\ \E inv \in BOOLEAN :
          /\ cache' = IF inv THEN <<>> ELSE cache
          /\ invalidated' = IF inv THEN invalidated \cup {run + 1} ELSE invalidated
    /\ proc' = "running"
    /\ mainPc' = "start"
    /\ fi' = 1
    /\ li' = 0
    /\ wg' = 0
    /\ unit' = [u \in Units |-> NoUnit]
    /\ calls' = EmptyBag
    /\ stdout' = EmptyBag
    /\ failed' = {}
    /\ UNCHANGED <<inputs, statuses, tmpfiles, tmpfile, prefix, disk, pulls>>

\* ------------------------------------------------------------------------
\* The goroutines of push
\* ------------------------------------------------------------------------
\* unitAfter as it would be if the error of a call were ignored
unitAfterIgnoringErr(ok, next) == next

\* the position of a push unit after a call followed by panicIfErr(err)
unitAfter(ok, next) == IF ok THEN next ELSE "dying"

\* client.Upload to the remote path, the request's file type evaluated first
PushUpload(u) ==
    /\ Running
    /\ unit[u].pc = "upload"
    /\ LET f == Files[u[1]]
           ft == filetypeForProjectFile(f, cfgFileType)
       IN  IF ft = ""
           THEN /\ unit' = [unit EXCEPT ![u].pc = "dying"]
                /\ wg' = wg - 1
                /\ failed' = failed \cup {"filetype"}
                /\ calls' = calls
           ELSE /\ calls' = Log(calls, <<"Upload", f, remoteFile(prefix, f)>>)
                /\ \E ok \in BOOLEAN :
                      IF ok
                      THEN /\ unit' = [unit EXCEPT ![u].pc = unitAfter(ok, "status"),
                                                   ![u].okc = @ \cup {"upload"}]
                           /\ UNCHANGED <<wg, failed>>
                      ELSE /\ unit' = [unit EXCEPT ![u].pc = unitAfter(ok, "status")]
                           /\ wg' = wg - 1
                           /\ failed' = failed \cup {"upload"}
    /\ UNCHANGED <<inputs, proc, mainPc, fi, li, statuses, tmpfiles, tmpfile, prefix, stdout,
                   pullState>>

\* client.Status of the remote path for the first locale
PushStatus(u) ==
    /\ Running
    /\ unit[u].pc = "status"
    /\ calls' = Log(calls, <<"Status", remoteFile(prefix, Files[u[1]]),
                                firstLocale(locales).v>>)
    /\ \E ok \in BOOLEAN :
          IF ok
          THEN /\ \E c \in 0..MaxCount :
                     unit' = [unit EXCEPT ![u].pc = unitAfter(ok, "decide"),
                                          ![u].fs = [aw |-> c, ip |-> 0, co |-> 0],
                                          ![u].okc = @ \cup {"status"}]
               /\ UNCHANGED <<wg, failed>>
          ELSE /\ unit' = [unit EXCEPT ![u].pc = unitAfter(ok, "decide")]
               /\ wg' = wg - 1
               /\ failed' = failed \cup {"status"}
    /\ UNCHANGED <<inputs, proc, mainPc, fi, li, statuses, tmpfiles, tmpfile, prefix, stdout,
                   pullState>>

\* retract as it would be without the check of the count
retractAnyCount(pfx, fs) == pfx # <<>>

\* retract as it would be without the check of the prefix
retractAnyPrefix(pfx, fs) == fs.aw = 0

\* whether the upload is retracted
retract(pfx, fs) == pfx # <<>> /\ fs.aw = 0

\* hasNewStrings as it would be if a deletion did not clear it
hasNewStringsAlways(deleted) == TRUE

\* hasNewStrings: true unless the upload was deleted
hasNewStrings(deleted) == ~deleted

\* the line of the awaiting-authorization count, printed if hasNewStrings
CountLine(u) ==
    <<"unauthorised strings", unit[u].fs.aw, remoteFile(prefix, Files[u[1]])>>

\* client.Delete of an upload without new strings, and the printed count
PushDecide(u) ==
    /\ Running
    /\ unit[u].pc = "decide"
    /\ LET rf == remoteFile(prefix, Files[u[1]])
       IN  IF retract(prefix, unit[u].fs)
           THEN /\ calls' = Log(calls, <<"Delete", rf>>)
                /\ \E ok \in BOOLEAN :
                      IF ok
                      THEN /\ unit' = [unit EXCEPT ![u].pc = "done",
                                                   ![u].okc = @ \cup {"delete"}]
                           /\ stdout' = IF hasNewStrings(TRUE)
                                        THEN Log(stdout, CountLine(u)) ELSE stdout
                           /\ failed' = failed
                      ELSE /\ unit' = [unit EXCEPT ![u].pc = "dying"]
                           /\ stdout' = stdout
                           /\ failed' = failed \cup {"delete"}
           ELSE /\ stdout' = IF hasNewStrings(FALSE)
                             THEN Log(stdout, CountLine(u)) ELSE stdout
                /\ unit' = [unit EXCEPT ![u].pc = "done"]
                /\ UNCHANGED <<calls, failed>>
    /\ wg' = wg - 1
    /\ UNCHANGED <<inputs, proc, mainPc, fi, li, statuses, tmpfiles, tmpfile, prefix, pullState>>

PushUnit(u) == PushUpload(u) \/ PushStatus(u) \/ PushDecide(u)

\* ------------------------------------------------------------------------
\* Specification
\* ------------------------------------------------------------------------
Next ==
    \/ Start
    \/ StatusUpload
    \/ Dispatch
    \/ Wait
    \/ StatusHeader
    \/ StatusTable
    \/ After
    \/ Exit
    \/ ProcessExit
    \/ MapFault
    \/ NextRun
    \/ \E u \in Units : StatusUnit(u)
    \/ \E u \in Units : PullUnit(u)
    \/ \E u \in Units : PushUnit(u)

Spec == Init /\ [][Next]_vars

\* ------------------------------------------------------------------------
\* Properties
\* ------------------------------------------------------------------------
Called(c) == BagIn(c, calls)

PastWait == mainPc \in {"header", "table", "return", "cleaned"}

DeleteIssued(u) == Called(<<"Delete", remoteFile(prefix, Files[u[1]])>>)

NoDeleteCall == \A c \in BagToSet(calls) : c[1] # "Delete"

\* a file whose type neither its extension nor the configuration resolves
Unresolvable(f) == FileTypeByExtension(Ext(f)) = "" /\ cfgFileType = ""

\* C1: after a status run in which every temp upload and every status query
\* succeeded, the matrix holds, for every (file, locale) pair, exactly the
\* status the query of that pair returned.
StatusMatrixComplete ==
    (cmd = "status" /\ PastWait /\ "upload" \notin failed /\ "status" \notin failed)
    => /\ \A i \in 1..Len(Files) : \A j \in 1..Len(locales) :
             /\ Files[i] \in DOMAIN statuses
             /\ locales[j] \in DOMAIN statuses[Files[i]]
             /\ statuses[Files[i]][locales[j]] = ServiceStatus(i, j)
       /\ \A f \in DOMAIN statuses : \A l \in DOMAIN statuses[f] :
             \E i \in 1..Len(Files), j \in 1..Len(locales) : f = Files[i] /\ l = locales[j]

\* C2: in a push with a non-empty prefix, a Delete of a file's remote path is
\* issued only after its status query answered an awaiting-authorization
\* count of zero, and a unit that completed issued it exactly when the count
\* was zero.
PushDeleteIffZero ==
    (cmd = "push" /\ prefix # <<>>)
    => \A u \in Units :
          /\ DeleteIssued(u)
                => /\ Called(<<"Status", remoteFile(prefix, Files[u[1]]), locales[1]>>)
                   /\ unit[u].pc \in {"done", "dying"}
                   /\ unit[u].fs.aw = 0
          /\ unit[u].pc = "done" => (DeleteIssued(u) <=> unit[u].fs.aw = 0)

PushDeleteIffZeroWitness ==
    /\ cmd = "push"
    /\ prefix # <<>>
    /\ \E u, v \in Units :
          /\ unit[u].pc = "done" /\ unit[u].fs.aw = 0 /\ DeleteIssued(u)
          /\ unit[v].pc = "done" /\ unit[v].fs.aw > 0 /\ ~DeleteIssued(v)

\* C3: in a push whose prefix is empty after cleaning, no Delete call is
\* issued, whatever count the status query answers.
NoDeleteWithEmptyPrefix ==
    (cmd = "push" /\ mainPc # "start" /\ prefix = <<>>) => NoDeleteCall

NoDeleteWithEmptyPrefixWitness ==
    /\ cmd = "push"
    /\ flagPrefix = Dot
    /\ prefix = <<>>
    /\ \E u \in Units : unit[u].pc = "done" /\ unit[u].fs.aw = 0

\* C4 as claimed: without a prefix flag no Delete call is issued, whatever the
\* default prefix of the environment is.
NoDeleteWithoutFlag ==
    (cmd = "push" /\ flagPrefix = <<>>) => NoDeleteCall

\* C4 as amended: without a prefix flag the default prefix of the environment
\* is the prefix; no Delete call is issued when that default is empty after
\* cleaning, and a unit that completed issued a Delete exactly when the
\* default is non-empty after cleaning and the count was zero.
NoDeleteWithoutFlagAndDefault ==
    (cmd = "push" /\ flagPrefix = <<>>)
    => /\ cleanPrefix(envPrefix) = <<>> => NoDeleteCall
       /\ \A u \in Units :
             unit[u].pc = "done"
             => (DeleteIssued(u) <=> (cleanPrefix(envPrefix) # <<>> /\ unit[u].fs.aw = 0))

NoDeleteWithoutFlagAndDefaultWitness ==
    /\ cmd = "push"
    /\ flagPrefix = <<>>
    /\ envPrefix = Slash
    /\ \E u \in Units : unit[u].pc = "done" /\ unit[u].fs.aw = 0

\* C5: in a status run in which a status query failed, no part of the status
\* table is printed.
NoTableAfterFailedQuery ==
    (cmd = "status" /\ "status" \in failed)
    => \A item \in BagToSet(stdout) : item[1] \notin {"Translation counts", "table"}

\* the invocations r1 < r2 with no cache invalidation in between
NoInvalidationBetween(r1, r2) == \A k \in (r1 + 1)..r2 : k \notin invalidated

\* C6: two pulls of the same (file, locale) with no cache invalidation in
\* between write the same bytes to the same destination path, and the later
\* one reports a cache hit.
PullIdempotentOnHit ==
    \A u \in Units : \A r1, r2 \in 1..MaxRuns :
       (/\ r1 < r2
        /\ <<r1, u[1], u[2]>> \in DOMAIN pulls
        /\ <<r2, u[1], u[2]>> \in DOMAIN pulls
        /\ NoInvalidationBetween(r1, r2))
       => /\ pulls[<<r2, u[1], u[2]>>].fp = pulls[<<r1, u[1], u[2]>>].fp
          /\ pulls[<<r2, u[1], u[2]>>].b = pulls[<<r1, u[1], u[2]>>].b
          /\ pulls[<<r2, u[1], u[2]>>].cached = "(using cache)"

\* the service's translations changed between two pulls of a pair, and the
\* cache was not invalidated
PullIdempotentOnHitWitness ==
    /\ cmd = "pull"
    /\ remoteVer = 2
    /\ invalidated = {}
    /\ \E u \in Units : {<<1, u[1], u[2]>>, <<2, u[1], u[2]>>} \subseteq DOMAIN pulls

\* C7 as claimed: with an empty prefix the remote path of an upload is the
\* project file path itself.
RemotePathIsProjectPath ==
    (cmd = "push" /\ prefix = <<>>)
    => \A c \in BagToSet(calls) : c[1] = "Upload" => c[3] = c[2]

\* C7 as amended: the remote path of an upload is the cleaned prefix (empty,
\* or rooted at "/"), a "/" and the project file path; with an empty prefix it
\* is "/" followed by the project file path.
RemotePathIsRootedConcatenation ==
    cmd = "push"
    => \A c \in BagToSet(calls) :
          c[1] = "Upload"
          => /\ c[3] = prefix \o Slash \o c[2]
             /\ prefix = <<>> => c[3] = Slash \o c[2]
             /\ prefix # <<>> => prefix[1] = "/" /\ prefix[Len(prefix)] # "/"

RemotePathIsRootedConcatenationWitness ==
    /\ cmd = "push"
    /\ flagPrefix = <<"x">>
    /\ Called(<<"Upload", FileB, <<"/", "x", "/", "d", "/", "b", ".", "j">>>>)

\* C8: in a run without failure the main goroutine is past wg.Wait() only
\* when every unit of files x locales (of files, in push) has finished: pull
\* has written every destination, status has written every cell.
JoinAwaitsEveryUnit ==
    (failed = {} /\ PastWait)
    => /\ \A u \in Units : unit[u].pc = "done"
       /\ wg = 0
       /\ cmd = "pull" => \A u \in Units : <<run, u[1], u[2]>> \in DOMAIN pulls

JoinAwaitsEveryUnitWitness ==
    /\ cmd = "pull"
    /\ failed = {}
    /\ mainPc = "return"
    /\ Cardinality(Units) = 4

\* the destination the claim C9 describes: the custom template when one is
\* configured, the default template otherwise
ClaimedDestination(p, locale) ==
    localRelativeFilePath(
        Execute(IF PullFilePath # <<>> THEN PullFilePath ELSE defaultPullDestination,
                FilenameParts(p, locale)))

\* C9: the destination path pull prints and writes for a (file, locale) pair
\* is the rendering of the custom template when one is configured and of the
\* default template when none is.
PullDestinationFromTemplate ==
    cmd = "pull"
    => \A item \in BagToSet(stdout) :
          \E u \in Units : item[1] = ClaimedDestination(Files[u[1]], locales[u[2]])

\* C10 as claimed: when a configuration error occurred, no unit has been
\* dispatched and no remote call or local write has been made.
ConfigErrorBeforeDispatch ==
    (failed \cap {"filetype", "template"} # {})
    => /\ \A u \in Units : unit[u].pc = "none"
       /\ \A c \in BagToSet(calls) : c[1] \in {"Locales", "go"}
       /\ \A k \in DOMAIN pulls : k[1] # run

\* the remote calls and local writes of the unit u
UnitCalled(u) ==
    LET f == Files[u[1]]
    IN  \/ Called(<<"Upload", f, remoteFile(prefix, f)>>)
        \/ \E c \in BagToSet(calls) :
              cmd = "push" /\ c[1] = "Status" /\ c[2] = remoteFile(prefix, f)
        \/ DeleteIssued(u)
        \/ \E c \in BagToSet(calls) :
              c[1] = "Cache" /\ c[2][1] = locales[u[2]] /\ c[2][2] = localRelativeFilePath(f)

\* C10 as amended: a configuration error is raised where the file is worked
\* on.  A file whose type cannot be resolved gets no temp upload and no unit
\* in status, and its unit makes no remote call and no local write in pull and
\* push; a unit of pull whose path template fails makes no local write and
\* prints no destination.  Units of other files may have run.
ConfigErrorStopsItsUnit ==
    /\ \A i \in 1..Len(Files) :
          Unresolvable(Files[i])
          => /\ ~Called(<<"UploadTemp", TempHandle(localRelativeFilePath(Files[i]))>>)
             /\ \A u \in Units :
                   u[1] = i
                   => /\ cmd = "status" => unit[u].pc = "none"
                      /\ unit[u].pc \in {"none", "fetch", "upload", "dying"}
                      /\ ~UnitCalled(u)
                      /\ <<run, u[1], u[2]>> \notin DOMAIN pulls
    /\ (cmd = "pull" /\ ~(TemplateParses(PullFilePath) /\ TemplateExecutes(PullFilePath)))
       => /\ pulls = <<>>
          /\ disk = <<>>
          /\ stdout = EmptyBag
    /\ "filetype" \in failed => \E i \in 1..Len(Files) : Unresolvable(Files[i])
    /\ "template" \in failed => ~(TemplateParses(PullFilePath) /\ TemplateExecutes(PullFilePath))

ConfigErrorStopsItsUnitWitness ==
    /\ cmd = "push"
    /\ "filetype" \in failed
    /\ \E u \in Units : unit[u].pc = "done"

\* the table of the counts the status queries return
QueriedTable ==
    [cols |-> locales,
     rows |-> [i \in 1..Len(Files) |->
                  [name |-> Files[i],
                   cells |-> [j \in 1..Len(locales) |->
                                 LET st == ServiceStatus(i, j)
                                 IN  <<st.aw, st.ip, st.co>>]]]]

\* C11: the table a status run without failure prints has one row per file in
\* configured order, one column per locale in the service's order, and in
\* each cell the awaiting, in-progress and completed counts the query of that
\* (file, locale) pair returned.
StatusTableShowsQueriedCounts ==
    (cmd = "status" /\ failed = {})
    => \A item \in BagToSet(stdout) : item[1] = "table" => item[2] = QueriedTable

InMatrixAccess(u) == unit[u].pc \in {"create", "write"}

\* C13: during a status run no two units are inside their check-create-write
\* of the status matrix at the same time.
MatrixAccessExclusive ==
    cmd = "status"
    => \A u, v \in Units : (InMatrixAccess(u) /\ InMatrixAccess(v)) => u = v

\* the temp handle of the i-th project file
HandleOf(i) == TempHandle(localRelativeFilePath(Files[i]))

\* the status query of the status unit u against its own file's handle
OwnQuery(u) == <<"Status", HandleOf(u[1]), locales[u[2]]>>

\* C14: in a status run each file is uploaded as a temp artifact at most once
\* (exactly once in a run without failure), a unit is dispatched only after
\* the upload of its file succeeded, and every status query is the query of a
\* unit against the handle of that unit's own file.
StatusQueriesOwnHandle ==
    cmd = "status"
    => /\ \A c \in BagToSet(calls) : c[1] = "UploadTemp" => CopiesIn(c, calls) = 1
       /\ (failed = {} /\ PastWait)
          => \A i \in 1..Len(Files) : Called(<<"UploadTemp", HandleOf(i)>>)
       /\ \A u \in Units :
             unit[u].pc # "none"
             => /\ Called(<<"UploadTemp", HandleOf(u[1])>>)
                /\ HandleOf(u[1]) \in tmpfiles \/ mainPc = "cleaned"
                /\ unit[u].tmp = HandleOf(u[1])
       /\ \A u \in Units :
             unit[u].pc \notin {"none", "query"} => CopiesIn(OwnQuery(u), calls) = 1
       /\ \A c \in BagToSet(calls) :
             c[1] = "Status"
             => \E u \in Units : unit[u].pc \notin {"none", "query"} /\ c = OwnQuery(u)

\* the loop has uploaded the second file while units of the first ran their
\* queries
StatusQueriesOwnHandleWitness ==
    /\ cmd = "status"
    /\ Len(Files) = 2
    /\ Len(locales) = 2
    /\ tmpfile = HandleOf(2)
    /\ tmpfile # HandleOf(1)
    /\ unit[<<1, 1>>].pc = "query"
    /\ unit[<<1, 2>>].pc = "done"
    /\ unit[<<2, 1>>].pc = "done"

\* the remote path of the push unit u
RemoteOf(u) == remoteFile(prefix, Files[u[1]])

\* C15: in push, the Status query of a file's remote path is issued only after
\* the Upload to that path succeeded, a Delete of the path only after the
\* Status query succeeded, the query is for the first locale, every Status
\* and Delete call addresses the path some Upload addressed, and no Delete is
\* issued for a file whose Upload or Status query failed.
PushCallsOrdered ==
    cmd = "push"
    => /\ \A u \in Units :
             /\ unit[u].pc \in {"none", "upload"}
                => \A c \in BagToSet(calls) :
                      c[1] \in {"Status", "Delete"} => c[2] # RemoteOf(u)
             /\ unit[u].pc = "status" => ~DeleteIssued(u)
             /\ (\E c \in BagToSet(calls) : c[1] = "Status" /\ c[2] = RemoteOf(u))
                => /\ "upload" \in unit[u].okc
                   /\ Called(<<"Upload", Files[u[1]], RemoteOf(u)>>)
                   /\ Called(<<"Status", RemoteOf(u), locales[1]>>)
             /\ DeleteIssued(u) => {"upload", "status"} \subseteq unit[u].okc
       /\ \A c \in BagToSet(calls) :
             c[1] \in {"Status", "Delete"}
             => \E d \in BagToSet(calls) : d[1] = "Upload" /\ d[3] = c[2]

\* one file's upload was deleted, another's status query failed
PushCallsOrderedWitness ==
    /\ cmd = "push"
    /\ \E u, v \in Units :
          /\ unit[u].pc = "done"
          /\ DeleteIssued(u)
          /\ unit[v].pc = "dying"
          /\ unit[v].okc = {"upload"}
          /\ Called(<<"Status", RemoteOf(v), locales[1]>>)
          /\ ~DeleteIssued(v)

\* the count lines printed for the remote path of the push unit u
CountLinesOf(u) ==
    {item \in BagToSet(stdout) :
        item[1] = "unauthorised strings" /\ item[3] = RemoteOf(u)}

\* C16: in push, a unit that completed either deleted its upload and printed
\* no awaiting-authorization count, or did not delete it and printed its count
\* exactly once; no count is printed for a path a Delete was issued for.
PushReportsOrDeletes ==
    cmd = "push"
    => \A u \in Units :
          /\ unit[u].pc = "done"
             => \/ /\ "delete" \in unit[u].okc
                   /\ DeleteIssued(u)
                   /\ CountLinesOf(u) = {}
                \/ /\ "delete" \notin unit[u].okc
                   /\ ~DeleteIssued(u)
                   /\ CountLinesOf(u) = {CountLine(u)}
                   /\ CopiesIn(CountLine(u), stdout) = 1
          /\ DeleteIssued(u) => CountLinesOf(u) = {}
          /\ unit[u].pc # "done" => CountLinesOf(u) = {}

\* one upload deleted without a report, one kept and reported with a positive
\* count
PushReportsOrDeletesWitness ==
    /\ cmd = "push"
    /\ prefix # <<>>
    /\ \E u, v \in Units :
          /\ unit[u].pc = "done" /\ "delete" \in unit[u].okc /\ CountLinesOf(u) = {}
          /\ unit[v].pc = "done" /\ unit[v].fs.aw > 0
          /\ CopiesIn(CountLine(v), stdout) = 1

\* the calls of the kind k in the log
CallsOf(k) == {c \in BagToSet(calls) : c[1] = k}

\* the cache fetch and the local write of the pull unit u
PullKey(u) ==
    <<locales[u[2]], localRelativeFilePath(Files[u[1]]),
      filetypeForProjectFile(Files[u[1]], cfgFileType)>>

PullDestination(u) == localPullFilePath(Files[u[1]], locales[u[2]], PullFilePath).out

\* C17: in a run without failure, once the main goroutine is past wg.Wait(),
\* exactly one unit was dispatched per (file, locale) pair (per file in push),
\* no call was issued twice, and the calls are: one status query per status
\* unit; one cache fetch and one local write per pull unit; one upload, one
\* status query and at most one delete per push unit.
ExactlyOncePerUnit ==
    (failed = {} /\ PastWait)
    => /\ CallsOf("go") = {<<"go", u[1], u[2]>> : u \in Units}
       /\ \A c \in BagToSet(calls) : CopiesIn(c, calls) = 1
       /\ cmd = "status"
          => /\ CallsOf("Status") = {OwnQuery(u) : u \in Units}
             /\ Cardinality(CallsOf("Status")) = Cardinality(Units)
       /\ cmd = "pull"
          => /\ CallsOf("Cache") = {<<"Cache", PullKey(u)>> : u \in Units}
             /\ Cardinality(CallsOf("Cache")) = Cardinality(Units)
             /\ CallsOf("WriteFile")
                   = {<<"WriteFile", PullDestination(u), unit[u].b>> : u \in Units}
             /\ Cardinality(CallsOf("WriteFile")) = Cardinality(Units)
       /\ cmd = "push"
          => /\ CallsOf("Upload")
                   = {<<"Upload", Files[u[1]], RemoteOf(u)>> : u \in Units}
             /\ CallsOf("Status") = {<<"Status", RemoteOf(u), locales[1]>> : u \in Units}
             /\ Cardinality(CallsOf("Upload")) = Cardinality(Units)
             /\ Cardinality(CallsOf("Status")) = Cardinality(Units)
             /\ CallsOf("Delete") \subseteq {<<"Delete", RemoteOf(u)>> : u \in Units}
       /\ cmd # "push" => CallsOf("Upload") = {} /\ CallsOf("Delete") = {}
       /\ cmd # "pull" => CallsOf("Cache") = {} /\ CallsOf("WriteFile") = {}
       /\ cmd = "pull" => CallsOf("Status") = {}

\* a push of two files without failure, one upload deleted and one kept
ExactlyOncePerUnitWitness ==
    /\ cmd = "push"
    /\ failed = {}
    /\ mainPc = "cleaned"
    /\ Len(Files) = 2
    /\ DeleteIssued(<<1, 1>>)
    /\ ~DeleteIssued(<<2, 1>>)

\* C18: in pull and push the dispatch loop can launch the next unit whenever
\* it is at one, whatever the number of units launched before that have not
\* finished.
UnboundedFanOut ==
    (Running /\ cmd \in {"pull", "push"} /\ mainPc = "loop" /\ li >= 1)
    => ENABLED Dispatch

\* every unit of a pull of two files and two locales is in flight at once
UnboundedFanOutWitness ==
    /\ cmd = "pull"
    /\ Cardinality(Units) = 4
    /\ mainPc = "wait"
    /\ wg = 4
    /\ \A u \in Units : unit[u].pc \in {"fetch", "write"}

\* C19: in a push for which the service returns no locale, no unit is
\* dispatched and no Upload, Status or Delete call is issued: the main
\* goroutine ends at the selection of the first locale.
PushAbortsOnNoLocales ==
    (cmd = "push" /\ locales = <<>>)
    => /\ \A u \in Units : unit[u].pc = "none"
       /\ wg = 0
       /\ \A c \in BagToSet(calls) : c[1] = "Locales"
       /\ mainPc \in {"start", "dying"}
       /\ mainPc = "dying" => (failed = {"locales"} \/ failed = {"index"})

PushAbortsOnNoLocalesWitness ==
    /\ cmd = "push"
    /\ locales = <<>>
    /\ Files # <<>>
    /\ failed = {"index"}
    /\ proc = "aborted"

\* C20: in a status run the temp artifacts are cleaned up only after the
\* Action returned; in a run without failure every unit has then finished its
\* query and the table is printed, and in every run a unit about to query
\* finds its temp artifact not yet cleaned up.
CleanupAfterQueries ==
    cmd = "status"
    => /\ (failed = {} /\ mainPc = "cleaned")
          => /\ \A u \in Units : unit[u].pc = "done" /\ Called(OwnQuery(u))
             /\ \E item \in BagToSet(stdout) : item[1] = "table"
       /\ \A u \in Units : unit[u].pc = "query" => unit[u].tmp \in tmpfiles
       /\ (tmpfiles = {} /\ \E c \in BagToSet(calls) : c[1] = "go") => mainPc = "cleaned"

CleanupAfterQueriesWitness ==
    /\ cmd = "status"
    /\ failed = {}
    /\ mainPc = "cleaned"
    /\ tmpfiles = {}
    /\ Cardinality(Units) = 4
    /\ Len(Files) = 2

====
